---- MODULE Spec2Model ----
(***************************************************************************)
(* Model of the interactive diagram viewer of the design-pattern catalog:  *)
(* the pan/zoom viewport of InteractiveDiagram.tsx and the hover/pin       *)
(* selection of PatternViewer.tsx.                                         *)
(*                                                                         *)
(* Each event handler is one action.  React re-renders between two events, *)
(* so a handler reads the state left by the previous one.                  *)
(***************************************************************************)
EXTENDS Integers, Sequences, FiniteSets, TLC

(***************************************************************************)
(* Exact arithmetic for the JavaScript numbers of the transform.           *)
(*                                                                         *)
(* The numbers the handlers compute are sums, differences, products and    *)
(* quotients of pointer coordinates and of the constants 0.1, 0.5, 1, 3.   *)
(* They are modelled as exact rationals (the real numbers the doubles      *)
(* approximate), written  m * 3^e[1] * 10^e[2] * 11^e[3]  with integer     *)
(* exponents and an integer mantissa m that none of 3, 10, 11 divides.     *)
(* The mantissa is a pair <<hi, lo>> standing for hi * Base + lo with      *)
(* 0 <= lo < Base, because it outgrows one machine word of the checker.    *)
(***************************************************************************)
Radix == <<3, 10, 11>>

Base == 10000 * 10000

NoExp == <<0, 0, 0>>

BigNorm(h, l) == <<h + (l \div Base), l % Base>>

BigAdd(a, b) == BigNorm(a[1] + b[1], a[2] + b[2])

BigNeg(a) == BigNorm(-a[1], -a[2])

BigIsZero(a) == a[1] = 0 /\ a[2] = 0

BigIsNeg(a) == a[1] < 0

\* a * c for a small factor 0 <= c <= 11
BigTimes(a, c) == BigNorm(a[1] * c, a[2] * c)

\* the remainder and the quotient of a by a small divisor 2 <= c <= 11
BigRem(a, c) == ((a[1] % c) * Base + a[2]) % c

BigQuot(a, c) == <<a[1] \div c, ((a[1] % c) * Base + a[2]) \div c>>

RECURSIVE BigTimesPow(_, _, _)
BigTimesPow(a, c, n) == IF n = 0 THEN a ELSE BigTimesPow(BigTimes(a, c), c, n - 1)

Min(a, b) == IF a < b THEN a ELSE b

\* pull every factor Radix[i], Radix[i+1], ... out of the mantissa
RECURSIVE Pull(_, _, _)
Pull(m, e, i) ==
    IF i > Len(Radix) THEN [m |-> m, e |-> e]
    ELSE IF BigRem(m, Radix[i]) = 0
    THEN Pull(BigQuot(m, Radix[i]), [e EXCEPT ![i] = @ + 1], i)
    ELSE Pull(m, e, i + 1)

Zero == [m |-> <<0, 0>>, e |-> NoExp]

Canon(m, e) == IF BigIsZero(m) THEN Zero ELSE Pull(m, e, 1)

\* the number n, for an integer n of one machine word
Num(n) == Canon(BigNorm(0, n), NoExp)

One == [m |-> <<0, 1>>, e |-> NoExp]

\* the mantissa of a over the exponents e (each e[i] <= a.e[i])
Over(a, e) ==
    BigTimesPow(BigTimesPow(BigTimesPow(a.m,
        3, a.e[1] - e[1]), 10, a.e[2] - e[2]), 11, a.e[3] - e[3])

AddOver(a, b, e) == Canon(BigAdd(Over(a, e), Over(b, e)), e)

Add(a, b) == AddOver(a, b, <<Min(a.e[1], b.e[1]), Min(a.e[2], b.e[2]), Min(a.e[3], b.e[3])>>)

Neg(a) == [m |-> BigNeg(a.m), e |-> a.e]

Sub(a, b) == Add(a, Neg(b))

IsUnit(a) == a.m = <<0, 1>>

\* a * b; every product of the handlers has a factor whose mantissa is 1,
\* -1 or 0 (the scale and the step factor are products of 3, 10 and 11)
MulOver(a, b, e) ==
    IF IsUnit(b) THEN [m |-> a.m, e |-> e]
    ELSE IF IsUnit(a) THEN [m |-> b.m, e |-> e]
    ELSE IF IsUnit(Neg(b)) THEN [m |-> BigNeg(a.m), e |-> e]
    ELSE IF IsUnit(Neg(a)) THEN [m |-> BigNeg(b.m), e |-> e]
    ELSE Canon(BigNorm(0, a.m[2] * b.m[2]), e)

Mul(a, b) ==
    IF BigIsZero(a.m) \/ BigIsZero(b.m) THEN Zero
    ELSE MulOver(a, b, <<a.e[1] + b.e[1], a.e[2] + b.e[2], a.e[3] + b.e[3]>>)

\* a / b; the handlers divide by the scale only, whose mantissa is 1
Div(a, b) ==
    IF BigIsZero(a.m) THEN Zero
    ELSE [m |-> a.m, e |-> <<a.e[1] - b.e[1], a.e[2] - b.e[2], a.e[3] - b.e[3]>>]

Lt(a, b) == BigIsNeg(Sub(a, b).m)

Gt(a, b) == Lt(b, a)

Le(a, b) == ~Lt(b, a)

\* Math.sign
Sign(n) == IF n > 0 THEN 1 ELSE IF n < 0 THEN -1 ELSE 0

(***************************************************************************)
(* State of InteractiveDiagram.                                            *)
(*   transform, isPanning, startPoint : its useState values                *)
(*   budget : how many more events may change them, zoom steps and pan     *)
(*            events apart; it bounds the exploration and is no state of   *)
(*            the program.  Two explorations start from the mounted        *)
(*            component: one zooms far enough to meet both ends of the     *)
(*            scale range, the other interleaves zooming and panning.      *)
(*   lastV : the last viewport event and its inputs (a history variable    *)
(*           read by the properties only)                                  *)
(*   grabbed : while a drag is in progress, the point of the diagram that  *)
(*             was under the pointer, and the scale, when the drag began   *)
(*             (a history variable read by the properties only)            *)
(***************************************************************************)
VARIABLES transform, isPanning, startPoint, budget, lastV, grabbed

viewportVars == <<transform, isPanning, startPoint, budget, lastV, grabbed>>

(***************************************************************************)
(* State of PatternViewer, mounted by App for the selected pattern.        *)
(*   pattern : App's selectedPattern, the pattern prop of the viewer       *)
(*   hoveredComponent, pinnedComponent : its useState values               *)
(*   hoverTimeoutRef : the timer id its ref holds, NoTimer for null        *)
(*   pendingTimers : the window's timers that are set and not yet fired    *)
(*                   or cleared                                            *)
(*   nextTimerId : the id the next window.setTimeout returns               *)
(*   shown : the component of the rendered CodePane, NoComponent when the  *)
(*           pattern details are rendered in its place                     *)
(*   superseded : the timers that were pending when a component was        *)
(*                entered (history, read by the properties only)           *)
(*   lastS : the last selection event and its inputs (history)             *)
(***************************************************************************)
VARIABLES pattern, hoveredComponent, pinnedComponent, hoverTimeoutRef,
          pendingTimers, nextTimerId, shown, superseded, lastS

selectionVars == <<pattern, hoveredComponent, pinnedComponent, hoverTimeoutRef,
                   pendingTimers, nextTimerId, shown, superseded, lastS>>

\* the modals of PatternViewer: activeModal is "none" for null; lastKey is
\* the last keydown event of the window
VARIABLES activeModal, isAllCodeModalOpen, lastKey, allCodeLanguage

modalVars == <<activeModal, isAllCodeModalOpen, lastKey, allCodeLanguage>>

\* the CodePane inside the detail panel: selectedLanguage is "unmounted"
\* while no CodePane is rendered; chosenFor is the component shown when the
\* user last clicked a language, while that component is still the one shown
VARIABLES selectedLanguage, chosenFor

\* the catalog App passes to the sidebar and, a pattern at a time, to the viewer
VARIABLES designPatterns

paneVars == <<selectedLanguage, chosenFor>>

vars == <<viewportVars, selectionVars, modalVars, paneVars, designPatterns>>

\* bounds of the exploration: zoom steps of the far-zooming exploration,
\* zoom steps and pan events of the interleaving one
MaxFarZooms == 12

MaxZooms == 2

MaxPans == 3

\* zoom steps and pan events of the exploration of the whole viewer
AppZooms == 1

AppPans == 2

Budgets == { [zooms |-> MaxFarZooms, pans |-> 0],
             [zooms |-> MaxZooms, pans |-> MaxPans],
             [zooms |-> AppZooms, pans |-> AppPans] }

\* const scaleAmount = 0.1, minScale = 0.5, maxScale = 3
scaleAmount == Div(One, Num(10))

minScale == Div(Num(5), Num(10))

maxScale == Num(3)

\* svg.getBoundingClientRect(): where the layout puts the diagram
SvgRect == [left |-> 20, top |-> 10]

\* pointer positions of the mouse events (clientX, clientY)
ClientPoints == { [x |-> 120, y |-> 110], [x |-> 20, y |-> 60] }

\* pointer positions of the wheel events
WheelPoints == { [x |-> 120, y |-> 110] }

\* e.deltaY of a wheel event: scroll up, sideways only, scroll down
DeltaYs == { -100, 0, 100 }

\* e.target of a mouse-down: the svg element, the grid rectangle, or the
\* element of a diagram component; classList of each
Targets == { "svg", "grid-rect", "component" }

ClassList(target) ==
    CASE target = "svg" -> { "w-full", "h-full", "diagram-bg" }
      [] target = "grid-rect" -> { "diagram-bg" }
      [] OTHER -> { "cursor-pointer" }

InitialTransform == [x |-> Zero, y |-> Zero, k |-> One]

NoEvent == [op |-> "none"]

\* no drag in progress
NoGrab == [k |-> Zero]

InitViewport ==
    /\ transform = InitialTransform
    /\ isPanning = FALSE
    /\ startPoint = [x |-> Zero, y |-> Zero]
    /\ budget \in Budgets
    /\ lastV = NoEvent
    /\ grabbed = NoGrab

\* a pan begun wherever the button goes down
OnAnyTarget(target) == TRUE

\* e.target === svgRef.current || e.target.classList.contains('diagram-bg')
OnBackground(target) == target = "svg" \/ "diagram-bg" \in ClassList(target)

\* the point of the diagram drawn at the client position e under the
\* transform t, the svg element being at SvgRect, and the scale of t
Grab(e, t) ==
    [x |-> Div(Sub(Num(e.x - SvgRect.left), t.x), t.k),
     y |-> Div(Sub(Num(e.y - SvgRect.top), t.y), t.k),
     k |-> t.k]

\* one event of the viewport, which exists while a pattern is shown
\* (selectedPattern is not null): the state it leaves and the record of it;
\* the state of the viewer around it stays
ViewportEvent(t, panning, start, event) ==
    /\ pattern # "none"
    /\ UNCHANGED <<selectionVars, modalVars, paneVars, designPatterns>>
    /\ transform' = t
    /\ isPanning' = panning
    /\ startPoint' = start
    /\ budget' = IF <<t, panning, start>> = <<transform, isPanning, startPoint>>
                 THEN budget
                 ELSE IF event.op = "wheel"
                 THEN [budget EXCEPT !.zooms = @ - 1]
                 ELSE [budget EXCEPT !.pans = @ - 1]
    /\ budget'.zooms >= 0 /\ budget'.pans >= 0
    /\ lastV' = event
    /\ grabbed' = IF ~panning THEN NoGrab
                  ELSE IF event.op = "mouseDown" /\ OnBackground(event.target)
                  THEN Grab(event.e, transform)
                  ELSE grabbed

\* a start point that forgets the translation
AnchorAtPointer(e, t) == [x |-> Num(e.x), y |-> Num(e.y)]

\* { x: e.clientX - transform.x, y: e.clientY - transform.y }
Anchor(e, t) == [x |-> Sub(Num(e.x), t.x), y |-> Sub(Num(e.y), t.y)]

handleMouseDown(target, e) ==
    IF OnBackground(target)
    THEN ViewportEvent(transform, TRUE, Anchor(e, transform),
                       [op |-> "mouseDown", target |-> target, e |-> e])
    ELSE ViewportEvent(transform, isPanning, startPoint,
                       [op |-> "mouseDown", target |-> target, e |-> e])

\* a move that drags whether or not a pan has begun
MovedAlways(t, panning, start, e) ==
    [t EXCEPT !.x = Sub(Num(e.x), start.x), !.y = Sub(Num(e.y), start.y)]

\* the transform handleMouseMove leaves: if (!isPanning) return; then x and
\* y are the pointer minus the start point
Moved(t, panning, start, e) ==
    IF ~panning THEN t
    ELSE [t EXCEPT !.x = Sub(Num(e.x), start.x), !.y = Sub(Num(e.y), start.y)]

handleMouseMove(e) ==
    ViewportEvent(Moved(transform, isPanning, startPoint, e),
                  isPanning, startPoint, [op |-> "mouseMove", e |-> e])

\* a release that leaves the mode
ReleasedKept(panning) == panning

\* a release that toggles the mode
ReleasedToggled(panning) == ~panning

\* setIsPanning(false)
Released(panning) == FALSE

\* onMouseUp and onMouseLeave of the svg element
handleMouseUp(how) ==
    ViewportEvent(transform, Released(isPanning), startPoint,
                  [op |-> how, panning |-> isPanning,
                   again |-> lastV.op \in { "mouseUp", "mouseLeave" }])

\* a step of a fixed amount, not of a fraction of the current scale
NewScaleByAmount(k, deltaY) == Sub(k, Mul(Num(Sign(deltaY)), scaleAmount))

\* transform.k * (1 - Math.sign(e.deltaY) * scaleAmount)
NewScale(k, deltaY) == Mul(k, Sub(One, Mul(Num(Sign(deltaY)), scaleAmount)))

\* the check of the lower limit alone
BelowRange(newScale) == Lt(newScale, minScale)

\* newScale < minScale || newScale > maxScale
OutOfRange(newScale) == Lt(newScale, minScale) \/ Gt(newScale, maxScale)

\* (mouseX - transform.x) / transform.k
World(mouse, t, k) == Div(Sub(mouse, t), k)

\* the translation rescaled about the origin, not about the mouse
NewTranslateAboutOrigin(mouse, world, newScale) ==
    Mul(Sub(mouse, Mul(world, newScale)), newScale)

\* mouseX - worldX * newScale
NewTranslate(mouse, world, newScale) == Sub(mouse, Mul(world, newScale))

\* a scale clamped to the limits instead of a rejected event
Clamp(newScale) ==
    IF Lt(newScale, minScale) THEN minScale
    ELSE IF Gt(newScale, maxScale) THEN maxScale ELSE newScale

RescaledClamping(t, mouseX, mouseY, newScale) ==
    [x |-> NewTranslate(mouseX, World(mouseX, t.x, t.k), Clamp(newScale)),
     y |-> NewTranslate(mouseY, World(mouseY, t.y, t.k), Clamp(newScale)),
     k |-> Clamp(newScale)]

\* the transform handleWheel leaves, given the mouse position and newScale
Rescaled(t, mouseX, mouseY, newScale) ==
    IF OutOfRange(newScale) THEN t
    ELSE [x |-> NewTranslate(mouseX, World(mouseX, t.x, t.k), newScale),
          y |-> NewTranslate(mouseY, World(mouseY, t.y, t.k), newScale),
          k |-> newScale]

Zoomed(t, mouseX, mouseY, deltaY) ==
    Rescaled(t, mouseX, mouseY, NewScale(t.k, deltaY))

handleWheel(e, deltaY) ==
    ViewportEvent(Zoomed(transform, Num(e.x - SvgRect.left),
                         Num(e.y - SvgRect.top), deltaY),
                  isPanning, startPoint,
                  [op |-> "wheel", e |-> e, deltaY |-> deltaY,
                   accepted |-> ~OutOfRange(NewScale(transform.k, deltaY)),
                   before |-> transform])

NextViewport ==
    \/ \E target \in Targets, e \in ClientPoints : handleMouseDown(target, e)
    \/ \E e \in ClientPoints : handleMouseMove(e)
    \/ \E how \in { "mouseUp", "mouseLeave" } : handleMouseUp(how)
    \/ \E e \in WheelPoints, deltaY \in DeltaYs : handleWheel(e, deltaY)

(***************************************************************************)
(* The hover/pin selection of PatternViewer.                               *)
(***************************************************************************)

\* bound of the exploration: calls of window.setTimeout
MaxTimers == 3

NoTimer == 0

\* null, for a component
NoComponent == [pattern |-> "none", id |-> "none", type |-> "none"]

\* designPatterns as compiled in: for the id of each pattern the ids of the
\* components of its diagram, in the order of the array
CompiledCatalog ==
    ("singleton" :>
       << "singleton-class", "self-arrow", "client-class",
          "usage-arrow" >>)
    @@
    ("factory-method" :>
       << "creator-interface", "product-interface",
          "concrete-creator-email", "concrete-creator-sms",
          "concrete-product-email", "concrete-product-sms",
          "arrow-creator-impl-1", "arrow-creator-impl-2",
          "arrow-product-impl-1", "arrow-product-impl-2",
          "arrow-create-1", "arrow-create-2" >>)
    @@
    ("abstract-factory" :>
       << "abs-factory", "concrete-factory-db",
          "concrete-factory-api", "abs-product-conn",
          "abs-product-tran", "concrete-product-db-conn",
          "concrete-product-api-conn", "concrete-product-db-tran",
          "concrete-product-api-tran", "impl-factory-1",
          "impl-factory-2", "create-conn-1", "create-conn-2",
          "create-tran-1", "create-tran-2", "impl-conn-1",
          "impl-conn-2", "impl-tran-1", "impl-tran-2" >>)
    @@
    ("builder" :>
       << "product", "builder-interface", "client", "arrow-builds",
          "arrow-uses" >>)
    @@
    ("prototype" :>
       << "prototype-interface", "concrete-prototype-1",
          "concrete-prototype-2", "registry", "arrow-impl-1",
          "arrow-impl-2", "arrow-uses-1", "arrow-uses-2" >>)
    @@
    ("adapter" :>
       << "target", "client", "adapter", "adaptee", "arrow-impl",
          "arrow-uses", "arrow-wraps" >>)
    @@
    ("bridge" :>
       << "abstraction", "refined-abstraction", "implementor",
          "concrete-implementor-1", "concrete-implementor-2",
          "arrow-bridge", "arrow-extends", "arrow-impl-1",
          "arrow-impl-2" >>)
    @@
    ("composite" :>
       << "component", "leaf", "composite", "arrow-impl-1",
          "arrow-impl-2", "arrow-composition" >>)
    @@
    ("decorator" :>
       << "component", "concrete-component", "decorator",
          "concrete-decorator-1", "concrete-decorator-2",
          "arrow-impl-comp", "arrow-impl-deco", "arrow-aggreg",
          "arrow-extends-1", "arrow-extends-2" >>)
    @@
    ("facade" :>
       << "facade", "subsystem-1", "subsystem-2", "subsystem-3",
          "arrow-1", "arrow-2", "arrow-3" >>)
    @@
    ("flyweight" :>
       << "factory", "flyweight", "context", "arrow-factory-manages",
          "arrow-context-uses" >>)
    @@
    ("proxy" :>
       << "subject", "real-subject", "proxy", "arrow-impl-1",
          "arrow-impl-2", "arrow-controls" >>)
    @@
    ("observer" :>
       << "subject-interface", "observer-interface",
          "concrete-subject", "concrete-observer",
          "arrow-subject-impl", "arrow-observer-impl",
          "arrow-dependency" >>)
    @@
    ("chain-of-responsibility" :>
       << "handler-interface", "base-handler", "handler-1",
          "handler-2", "handler-3", "arrow-impl", "arrow-extends-1",
          "arrow-extends-2", "arrow-extends-3", "arrow-chain-1",
          "arrow-chain-2" >>)
    @@
    ("command" :>
       << "command-interface", "concrete-command", "receiver",
          "invoker", "arrow-impl", "arrow-invokes", "arrow-action" >>)
    @@
    ("iterator" :>
       << "aggregate-interface", "iterator-interface",
          "concrete-aggregate", "concrete-iterator", "arrow-agg-impl",
          "arrow-iter-impl", "arrow-creates" >>)
    @@
    ("mediator" :>
       << "mediator-interface", "concrete-mediator",
          "colleague-abstract", "colleague-concrete",
          "arrow-impl-mediator", "arrow-impl-colleague",
          "arrow-mediator-holds", "arrow-colleague-uses" >>)
    @@
    ("memento" :>
       << "originator", "memento", "caretaker", "arrow-creates",
          "arrow-holds" >>)
    @@
    ("state" :>
       << "context", "state-interface", "state-1", "state-2",
          "state-3", "arrow-context-uses", "arrow-state-impl-1",
          "arrow-state-impl-2", "arrow-state-impl-3",
          "arrow-state-transition-1", "arrow-state-transition-2",
          "arrow-state-knows-context1", "arrow-state-knows-context2",
          "arrow-state-knows-context3" >>)
    @@
    ("strategy" :>
       << "context", "strategy-interface", "strategy-1", "strategy-2",
          "arrow-context-uses", "arrow-impl-1", "arrow-impl-2" >>)
    @@
    ("template-method" :>
       << "abstract-class", "concrete-class-1", "concrete-class-2",
          "arrow-impl-1", "arrow-impl-2" >>)
    @@
    ("visitor" :>
       << "visitor-interface", "concrete-visitor",
          "element-interface", "element-1", "element-2",
          "arrow-visitor-impl", "arrow-element-impl-1",
          "arrow-element-impl-2", "arrow-accepts", "arrow-visits1",
          "arrow-visits2" >>)

\* an excerpt of the catalog: two patterns whose diagrams both have a
\* component with the id 'context'
Patterns == { "flyweight", "state" }

Catalog ==
    { [pattern |-> "flyweight", id |-> "factory", type |-> "class"],
      [pattern |-> "flyweight", id |-> "context", type |-> "class"],
      [pattern |-> "state", id |-> "context", type |-> "class"],
      [pattern |-> "state", id |-> "state-interface", type |-> "interface"] }

\* a further pattern of the catalog, shown by the specification of the detail
\* panel: the code of its classes has the keys java, python, javascript, that
\* of its arrows the key java alone
ProxyComponents ==
    { [pattern |-> "proxy", id |-> "proxy", type |-> "class"],
      [pattern |-> "proxy", id |-> "arrow-controls", type |-> "arrow"] }

\* a pattern the catalog does not have and its type admits, code being any
\* Record<string, string>: a component whose code is {} and one whose code
\* has the key python alone
SketchComponents ==
    { [pattern |-> "sketch", id |-> "blank", type |-> "class"],
      [pattern |-> "sketch", id |-> "script", type |-> "class"] }

\* the patterns the specification of the detail panel shows
PanePatterns == { "proxy", "sketch" }

\* another pattern the type admits, shown by the specification of the
\* all-code view: a component whose code has the keys python, javascript in
\* this order, the snippet of python being the empty string, and one whose
\* code has the key python alone, its snippet the empty string
DraftComponents ==
    { [pattern |-> "draft", id |-> "stub", type |-> "class"],
      [pattern |-> "draft", id |-> "note", type |-> "class"] }

\* every component of the model
Admitted ==
    Catalog \cup ProxyComponents \cup SketchComponents \cup DraftComponents

\* Object.keys(component.code), in the order of the object literal
CodeKeys(c) ==
    CASE c = NoComponent -> << >>
      [] c.pattern = "sketch" /\ c.id = "blank" -> << >>
      [] c.pattern = "sketch" /\ c.id = "script" -> << "python" >>
      [] c.pattern = "draft" /\ c.id = "stub" -> << "python", "javascript" >>
      [] c.pattern = "draft" /\ c.id = "note" -> << "python" >>
      [] c.type = "arrow" -> << "java" >>
      [] OTHER -> << "java", "python", "javascript" >>

\* pattern.diagram.components
Components(p) == { c \in Admitted : c.pattern = p }

\* the components InteractiveDiagram renders with mouse handlers
Interactive(p) ==
    { c \in Components(p) : c.type \in { "class", "interface", "arrow" } }

\* a || b of JavaScript, for components: null is falsy, an object truthy
OrElse(a, b) == IF a # NoComponent THEN a ELSE b

\* the hovered component first
componentToShowHovered(pinned, hovered) == OrElse(hovered, pinned)

\* const componentToShow = pinnedComponent || hoveredComponent
componentToShow(pinned, hovered) == OrElse(pinned, hovered)

\* the ref reset without clearTimeout
clearHoverTimeoutRefOnly(ref, pending) == pending

\* clearHoverTimeout: the window's timers after it
clearHoverTimeout(ref, pending) ==
    IF ref # NoTimer THEN pending \ { ref } ELSE pending

\* a timer set beside the one the ref holds
armedStacking(ref, pending, id) == pending \cup { id }

\* clearHoverTimeout(); hoverTimeoutRef.current = window.setTimeout(...):
\* the window's timers after it, id being the new timer
armed(ref, pending, id) == clearHoverTimeout(ref, pending) \cup { id }

\* the hovered component set by the timer only
hoveredAfterDelayed(component, hovered) == hovered

\* the hovered component handleHoverComponent(component) leaves at once
hoveredAfter(component, hovered) ==
    IF component # NoComponent THEN component ELSE hovered

\* the pinned component compared by identity, not by id
togglePinnedSameObject(prev, component) ==
    IF prev = component THEN NoComponent ELSE component

\* a click that pins and never unpins
togglePinnedAlways(prev, component) == component

\* prev => (prev?.id === component.id ? null : component)
togglePinned(prev, component) ==
    IF prev # NoComponent /\ prev.id = component.id
    THEN NoComponent ELSE component

InitSelectionIn(patterns) ==
    /\ designPatterns = CompiledCatalog
    /\ pattern \in patterns
    /\ hoveredComponent = NoComponent
    /\ pinnedComponent = NoComponent
    /\ hoverTimeoutRef = NoTimer
    /\ pendingTimers = {}
    /\ nextTimerId = 1
    /\ shown = NoComponent
    /\ superseded = {}
    /\ lastS = NoEvent

InitSelection == InitSelectionIn(Patterns)

\* the elements of a sequence
Range(seq) == { seq[i] : i \in DOMAIN seq }

\* availableLanguages.includes('java') ? 'java' : availableLanguages[0] || ''
InitialLanguage(keys) ==
    IF "java" \in Range(keys) THEN "java"
    ELSE IF keys # << >> THEN keys[1] ELSE ""

\* useState(...) of CodePane over a render of the viewer: the CodePane is
\* mounted, and its state initialised, when a component is shown after none
\* was; it keeps its state while some component is shown; it is unmounted
\* when none is
LanguageAfterRender(was, now, language) ==
    IF now = NoComponent THEN "unmounted"
    ELSE IF was = NoComponent THEN InitialLanguage(CodeKeys(now))
    ELSE language

InitPane ==
    /\ selectedLanguage = "unmounted"
    /\ chosenFor = NoComponent

\* the render that follows an update of the hover/pin state of the viewer; the
\* state of the diagram inside it and the modals stay
Render ==
    /\ shown' = componentToShow(pinnedComponent', hoveredComponent')
    /\ selectedLanguage' = LanguageAfterRender(shown, shown', selectedLanguage)
    /\ chosenFor' = IF shown' = shown THEN chosenFor ELSE NoComponent
    /\ UNCHANGED <<viewportVars, modalVars, designPatterns>>

\* const hasCode = availableLanguages.length > 0 && selectedLanguage
hasCode(keys, language) == Len(keys) > 0 /\ language # ""

\* what the body of the CodePane shows: the snippet of the language, the
\* comment '// Code for ... not available.', or 'No code snippet available
\* for this component.'
PaneBody(keys, language) ==
    IF ~hasCode(keys, language) THEN "no-snippet"
    ELSE IF language \in Range(keys) THEN "snippet"
    ELSE "not-available"

\* onClick of a language button of the CodePane, rendered when hasCode
setSelectedLanguage(lang) ==
    /\ shown # NoComponent
    /\ hasCode(CodeKeys(shown), selectedLanguage)
    /\ lang \in Range(CodeKeys(shown))
    /\ selectedLanguage' = lang
    /\ chosenFor' = shown
    /\ lastS' = [op |-> "language", c |-> shown, lang |-> lang]
    /\ UNCHANGED <<pattern, hoveredComponent, pinnedComponent, hoverTimeoutRef,
                   pendingTimers, nextTimerId, shown, superseded>>
    /\ UNCHANGED <<viewportVars, modalVars, designPatterns>>

\* handleHoverComponent(component), component null on mouse leave
handleHoverComponent(component, op) ==
    /\ pattern # "none"
    /\ IF component # NoComponent
       THEN /\ hoverTimeoutRef' = NoTimer
            /\ pendingTimers' = clearHoverTimeout(hoverTimeoutRef, pendingTimers)
            /\ UNCHANGED nextTimerId
       ELSE /\ nextTimerId <= MaxTimers
            /\ hoverTimeoutRef' = nextTimerId
            /\ pendingTimers' = armed(hoverTimeoutRef, pendingTimers, nextTimerId)
            /\ nextTimerId' = nextTimerId + 1
    /\ hoveredComponent' = hoveredAfter(component, hoveredComponent)
    /\ superseded' = IF component # NoComponent
                     THEN superseded \cup pendingTimers ELSE superseded
    /\ lastS' = [op |-> op, c |-> component, replaced |-> pendingTimers]
    /\ UNCHANGED <<pattern, pinnedComponent>>
    /\ Render

\* onMouseEnter of a rendered component
HoverEnter(c) ==
    /\ c \in Interactive(pattern)
    /\ handleHoverComponent(c, "hoverEnter")

\* onMouseLeave of a rendered component
HoverLeave == handleHoverComponent(NoComponent, "hoverLeave")

\* a panel without a handler of mouse enter
panelEnteredIdle(ref, pending) == pending

\* onMouseEnter={clearHoverTimeout}: the window's timers after it
panelEntered(ref, pending) == clearHoverTimeout(ref, pending)

\* onMouseEnter of the detail panel
PanelEnter ==
    /\ shown # NoComponent
    /\ hoverTimeoutRef' = NoTimer
    /\ pendingTimers' = panelEntered(hoverTimeoutRef, pendingTimers)
    /\ lastS' = [op |-> "panelEnter", c |-> NoComponent,
                 cancelled |-> pendingTimers]
    /\ UNCHANGED <<pattern, hoveredComponent, pinnedComponent, nextTimerId,
                   superseded>>
    /\ Render

\* onMouseLeave of the detail panel
PanelLeave ==
    /\ shown # NoComponent
    /\ handleHoverComponent(NoComponent, "panelLeave")

\* a callback that leaves the hovered component
expiredHoverKept(hovered) == hovered

\* () => setHoveredComponent(null)
expiredHover(hovered) == NoComponent

\* the callback of the timer set by handleHoverComponent(null)
HoverTimeout(t) ==
    /\ t \in pendingTimers
    /\ pendingTimers' = pendingTimers \ { t }
    /\ hoveredComponent' = expiredHover(hoveredComponent)
    /\ lastS' = [op |-> "timeout", c |-> NoComponent, timer |-> t,
                 cleared |-> hoveredComponent]
    /\ UNCHANGED <<pattern, pinnedComponent, hoverTimeoutRef, nextTimerId,
                   superseded>>
    /\ Render

\* a pin that leaves the timer of the hover
timersAfterPinKept(ref, pending) == pending

\* clearHoverTimeout(); // Also clear timeout on pin
timersAfterPin(ref, pending) == clearHoverTimeout(ref, pending)

\* onClick of a rendered component
handlePinComponent(c) ==
    /\ c \in Interactive(pattern)
    /\ hoverTimeoutRef' = NoTimer
    /\ pendingTimers' = timersAfterPin(hoverTimeoutRef, pendingTimers)
    /\ pinnedComponent' = togglePinned(pinnedComponent, c)
    /\ lastS' = [op |-> "pin", c |-> c,
                 again |-> lastS.op = "pin" /\ lastS.c = c,
                 first |-> IF lastS.op = "pin" /\ lastS.c = c
                           THEN lastS.before ELSE NoComponent,
                 before |-> pinnedComponent,
                 cancelled |-> pendingTimers]
    /\ UNCHANGED <<pattern, hoveredComponent, nextTimerId, superseded>>
    /\ Render

\* a close button that leaves the pin
closedPinKept(pinned) == pinned

\* setPinnedComponent(null)
closedPin(pinned) == NoComponent

\* onClose of the CodePane
handleClosePane ==
    /\ shown # NoComponent
    /\ pinnedComponent' = closedPin(pinnedComponent)
    /\ lastS' = [op |-> "close", c |-> NoComponent, before |-> pinnedComponent]
    /\ UNCHANGED <<pattern, hoveredComponent, hoverTimeoutRef, pendingTimers,
                   nextTimerId, superseded>>
    /\ Render

\* App.handleSelectPattern from the sidebar: the viewer stays mounted and
\* gets another pattern prop
handleSelectPattern(p) ==
    /\ pattern' = p
    /\ lastS' = [op |-> "select", c |-> NoComponent, from |-> pattern]
    /\ UNCHANGED <<hoveredComponent, pinnedComponent, hoverTimeoutRef,
                   pendingTimers, nextTimerId, superseded>>
    /\ Render

\* App.handleGoToDashboard: selectedPattern is null ("none"), the viewer and
\* the diagram in it are unmounted and their state is gone; the next viewer
\* is mounted in the initial state. The timers of the unmounted viewer call
\* a setter that no longer has a component.
handleGoToDashboard ==
    /\ pattern' = "none"
    /\ hoveredComponent' = NoComponent
    /\ pinnedComponent' = NoComponent
    /\ hoverTimeoutRef' = NoTimer
    /\ pendingTimers' = {}
    /\ shown' = NoComponent
    /\ lastS' = [op |-> "dashboard", c |-> NoComponent, from |-> pattern]
    /\ transform' = InitialTransform
    /\ isPanning' = FALSE
    /\ startPoint' = [x |-> Zero, y |-> Zero]
    /\ grabbed' = NoGrab
    /\ activeModal' = "none"
    /\ isAllCodeModalOpen' = FALSE
    /\ allCodeLanguage' = "unmounted"
    /\ selectedLanguage' = "unmounted"
    /\ chosenFor' = NoComponent
    /\ UNCHANGED <<nextTimerId, superseded, budget, lastV, lastKey,
                   designPatterns>>

\* c.code[language]: "undefined" without an entry, "" for an empty snippet,
\* "code" for any other text
Snippet(c, language) ==
    IF language \notin { CodeKeys(c)[i] : i \in DOMAIN CodeKeys(c) }
    THEN "undefined"
    ELSE IF c.pattern = "draft" /\ language = "python" THEN ""
    ELSE "code"

\* pattern.diagram.components, in the order of the array
Diagram(p) ==
    CASE p = "proxy" ->
           << [pattern |-> "proxy", id |-> "proxy", type |-> "class"],
              [pattern |-> "proxy", id |-> "arrow-controls", type |-> "arrow"] >>
      [] p = "sketch" ->
           << [pattern |-> "sketch", id |-> "blank", type |-> "class"],
              [pattern |-> "sketch", id |-> "script", type |-> "class"] >>
      [] p = "draft" ->
           << [pattern |-> "draft", id |-> "stub", type |-> "class"],
              [pattern |-> "draft", id |-> "note", type |-> "class"] >>
      [] OTHER -> << >>

\* the patterns the specification of the all-code view shows
AllCodePatterns == { "proxy", "sketch", "draft" }

\* keys.forEach(lang => langSet.add(lang)): a Set keeps the order of insertion
RECURSIVE AddAll(_, _)
AddAll(langSet, keys) ==
    IF keys = << >> THEN langSet
    ELSE AddAll(IF Head(keys) \in { langSet[i] : i \in DOMAIN langSet }
                THEN langSet ELSE Append(langSet, Head(keys)),
                Tail(keys))

\* components.forEach(c => ... Object.keys(c.code).forEach(...))
RECURSIVE LangSet(_, _)
LangSet(langSet, components) ==
    IF components = << >> THEN langSet
    ELSE LangSet(AddAll(langSet, CodeKeys(Head(components))), Tail(components))

\* the language tags in the order of Array.prototype.sort, by code units
LanguageOrder == << "java", "javascript", "python" >>

\* an array left in the order of insertion
Unsorted(langs) == langs

\* Array.from(langSet).sort()
Sorted(langs) ==
    SelectSeq(LanguageOrder, LAMBDA l : l \in { langs[i] : i \in DOMAIN langs })

\* availableLanguages of AllCodeModal
availableLanguages(p) == Sorted(LangSet(<< >>, Diagram(p)))

\* c.code[selectedLanguage] as a condition: undefined and '' are falsy
Truthy(text) == text \notin { "undefined", "" }

\* codeSnippets of AllCodeModal
codeSnippets(p, language) ==
    SelectSeq(Diagram(p), LAMBDA c : Truthy(Snippet(c, language)))

\* what the tab panel of AllCodeModal shows: the snippets, or the message
\* 'No code snippets available for this language.'
AllCodeBody(p, language) ==
    IF Len(codeSnippets(p, language)) > 0
    THEN [snippets |-> codeSnippets(p, language), message |-> FALSE]
    ELSE [snippets |-> << >>, message |-> TRUE]

\* the secondary diagrams a pattern of the catalog has
HasDiagram(p, kind) == p \in Patterns /\ kind \in { "sequence", "use-case" }

InitModals ==
    /\ activeModal = "none"
    /\ isAllCodeModalOpen = FALSE
    /\ lastKey = NoEvent
    /\ allCodeLanguage = "unmounted"

\* onClick of the buttons 'View Use Case Diagram', 'View Sequence Diagram'
openDiagramModal(kind) ==
    /\ HasDiagram(pattern, kind)
    /\ activeModal' = kind
    /\ lastKey' = NoEvent
    /\ UNCHANGED <<designPatterns, viewportVars, selectionVars,
                   paneVars, isAllCodeModalOpen,
                   allCodeLanguage>>

\* onClose of the DiagramModal: its close button, its backdrop
closeDiagramModal ==
    /\ activeModal # "none"
    /\ activeModal' = "none"
    /\ UNCHANGED <<designPatterns, viewportVars, selectionVars,
                   paneVars, isAllCodeModalOpen,
                   lastKey, allCodeLanguage>>

\* a button 'View All Code' that ends a drag of the diagram
openAllCodeModalReleasing ==
    /\ pattern # "none"
    /\ isAllCodeModalOpen' = TRUE
    /\ isPanning' = FALSE
    /\ lastKey' = NoEvent
    /\ allCodeLanguage' = IF isAllCodeModalOpen THEN allCodeLanguage
                          ELSE InitialLanguage(availableLanguages(pattern))
    /\ UNCHANGED <<transform, startPoint, budget, lastV, grabbed,
                   selectionVars, paneVars, activeModal, designPatterns>>

\* a button 'View All Code' whose view takes the first component off the
\* diagram of the pattern in place
openAllCodeModalShifting ==
    /\ pattern # "none"
    /\ isAllCodeModalOpen' = TRUE
    /\ lastKey' = NoEvent
    /\ allCodeLanguage' = IF isAllCodeModalOpen THEN allCodeLanguage
                          ELSE InitialLanguage(availableLanguages(pattern))
    /\ designPatterns' = [designPatterns EXCEPT ![pattern] = Tail(@)]
    /\ UNCHANGED <<viewportVars, selectionVars, paneVars, activeModal>>

\* onClick of the button 'View All Code'
openAllCodeModal ==
    /\ pattern # "none"
    /\ isAllCodeModalOpen' = TRUE
    /\ lastKey' = NoEvent
    /\ allCodeLanguage' = IF isAllCodeModalOpen THEN allCodeLanguage
                          ELSE InitialLanguage(availableLanguages(pattern))
    /\ UNCHANGED <<designPatterns, viewportVars, selectionVars,
                   paneVars, activeModal>>

\* onClose of the AllCodeModal: its close button, its backdrop
closeAllCodeModal ==
    /\ isAllCodeModalOpen
    /\ isAllCodeModalOpen' = FALSE
    /\ allCodeLanguage' = "unmounted"
    /\ UNCHANGED <<designPatterns, viewportVars, selectionVars,
                   paneVars, activeModal, lastKey>>

\* onClick of a language tab of the AllCodeModal
setAllCodeLanguage(lang) ==
    /\ isAllCodeModalOpen
    /\ lang \in Range(availableLanguages(pattern))
    /\ allCodeLanguage' = lang
    /\ UNCHANGED <<designPatterns, viewportVars, selectionVars,
                   paneVars, activeModal,
                   isAllCodeModalOpen, lastKey>>

\* the keys of the keydown events: Escape, and one that is not
Keys == { "Escape", "Enter" }

\* a modal that every key closes
AnyKeyCloses(key) == TRUE

\* if (event.key === 'Escape') onClose()
KeyCloses(key) == key = "Escape"

\* a keydown event of the window: handleEsc of every modal that is mounted,
\* the DiagramModal while activeModal is not null, the AllCodeModal while
\* isAllCodeModalOpen
handleKeyDown(key) ==
    /\ pattern # "none"
    /\ activeModal' = IF activeModal # "none" /\ KeyCloses(key)
                      THEN "none" ELSE activeModal
    /\ isAllCodeModalOpen' = IF isAllCodeModalOpen /\ KeyCloses(key)
                             THEN FALSE ELSE isAllCodeModalOpen
    /\ allCodeLanguage' = IF isAllCodeModalOpen /\ KeyCloses(key)
                          THEN "unmounted" ELSE allCodeLanguage
    /\ lastKey' = [op |-> "keydown", key |-> key,
                   open |-> (activeModal # "none" \/ isAllCodeModalOpen)]
    /\ UNCHANGED <<designPatterns, viewportVars, selectionVars, paneVars>>

NextModal ==
    \/ \E kind \in { "sequence", "use-case" } : openDiagramModal(kind)
    \/ closeDiagramModal
    \/ openAllCodeModal
    \/ closeAllCodeModal

NextSelection ==
    \/ \E c \in Catalog : HoverEnter(c)
    \/ HoverLeave
    \/ PanelEnter
    \/ PanelLeave
    \/ \E t \in 1..MaxTimers : HoverTimeout(t)
    \/ \E c \in Catalog : handlePinComponent(c)
    \/ handleClosePane
    \/ \E p \in Patterns : handleSelectPattern(p)

Init == InitViewport /\ InitSelection /\ InitModals /\ InitPane

\* the viewport alone, the viewer showing one pattern
InitForViewport == Init /\ pattern = "flyweight"

SpecViewport == InitForViewport /\ [][NextViewport]_vars

\* the viewport alone, its drags interleaved with zoom steps
InitForPanning == InitForViewport /\ budget.pans = MaxPans

SpecPanning == InitForPanning /\ [][NextViewport]_vars

\* the viewport and the navigation of App between patterns and dashboard
NextNavigation ==
    \/ NextViewport
    \/ \E p \in Patterns : handleSelectPattern(p)
    \/ handleGoToDashboard

SpecNavigation == InitForPanning /\ [][NextNavigation]_vars

\* the detail panel and its CodePane, over the patterns that show it
InitForPane ==
    /\ InitViewport /\ budget.pans = 0
    /\ InitSelectionIn(PanePatterns)
    /\ InitModals
    /\ InitPane

NextPane ==
    \/ \E c \in Admitted : HoverEnter(c)
    \/ HoverLeave
    \/ PanelEnter
    \/ PanelLeave
    \/ \E t \in 1..MaxTimers : HoverTimeout(t)
    \/ \E c \in Admitted : handlePinComponent(c)
    \/ handleClosePane
    \/ \E p \in PanePatterns : handleSelectPattern(p)
    \/ \E lang \in { "java", "python", "javascript" } : setSelectedLanguage(lang)

SpecPane == InitForPane /\ [][NextPane]_vars

\* the all-code view over the patterns AllCodePatterns, with the pins of the
\* viewer under it
InitForAllCode ==
    /\ InitViewport
    /\ budget = [zooms |-> MaxFarZooms, pans |-> 0]
    /\ InitSelectionIn(AllCodePatterns)
    /\ InitModals
    /\ InitPane

NextAllCode ==
    \/ \E c \in Admitted : handlePinComponent(c)
    \/ \E p \in AllCodePatterns : handleSelectPattern(p)
    \/ openAllCodeModal
    \/ closeAllCodeModal
    \/ \E lang \in Range(LanguageOrder) : setAllCodeLanguage(lang)
    \/ \E key \in Keys : handleKeyDown(key)

SpecAllCode == InitForAllCode /\ [][NextAllCode]_vars

\* the whole viewer of one pattern: diagram, selection, modals and keys
InitForApp ==
    /\ Init
    /\ budget = [zooms |-> AppZooms, pans |-> AppPans]
    /\ pattern = "state"

\* the component of the diagram the pointer of this exploration meets
AppComponents == { c \in Components("state") : c.id = "context" }

\* the pointer positions of this exploration: where the button goes down
\* and the wheel turns, and where the pointer is dragged to
AppDown == [x |-> 120, y |-> 110]

AppMove == [x |-> 20, y |-> 60]

NextApp ==
    \/ handleMouseDown("svg", AppDown)
    \/ handleMouseMove(AppMove)
    \/ handleMouseUp("mouseLeave")
    \/ handleWheel(AppDown, -100)
    \/ \E c \in AppComponents : HoverEnter(c)
    \/ HoverLeave
    \/ \E t \in 1..MaxTimers : HoverTimeout(t)
    \/ \E c \in AppComponents : handlePinComponent(c)
    \/ openDiagramModal("sequence")
    \/ closeDiagramModal
    \/ openAllCodeModal
    \/ closeAllCodeModal
    \/ handleKeyDown("Escape")

SpecApp == InitForApp /\ [][NextApp]_vars

\* the operations of the application over the catalog: selection of a
\* pattern, pan, zoom, hover, pin and the modals
InitForCatalog ==
    /\ Init
    /\ budget = [zooms |-> AppZooms, pans |-> AppPans]

NextCatalog ==
    \/ \E p \in Patterns : handleSelectPattern(p)
    \/ handleMouseDown("grid-rect", AppDown)
    \/ handleMouseMove(AppMove)
    \/ handleMouseUp("mouseUp")
    \/ handleWheel(AppDown, 100)
    \/ \E c \in Catalog : HoverEnter(c)
    \/ \E c \in Catalog : handlePinComponent(c)
    \/ openDiagramModal("use-case")
    \/ closeDiagramModal
    \/ openAllCodeModal
    \/ closeAllCodeModal

SpecCatalog == InitForCatalog /\ [][NextCatalog]_vars

\* the modals and the keyboard, over the selection of one pattern
InitForKeys ==
    /\ Init
    /\ budget = [zooms |-> AppZooms, pans |-> AppPans]
    /\ pattern = "state"

NextKeys ==
    \/ \E c \in AppComponents : HoverEnter(c)
    \/ HoverLeave
    \/ \E t \in 1..MaxTimers : HoverTimeout(t)
    \/ \E c \in AppComponents : handlePinComponent(c)
    \/ \E kind \in { "sequence", "use-case" } : openDiagramModal(kind)
    \/ closeDiagramModal
    \/ openAllCodeModal
    \/ closeAllCodeModal
    \/ \E key \in Keys : handleKeyDown(key)

SpecKeys == InitForKeys /\ [][NextKeys]_vars

\* the selection alone, under one of the budgets
InitForSelection == Init /\ budget.pans = 0

SpecSelection == InitForSelection /\ [][NextSelection]_vars

\* the viewer with its modals, and window.setTimeout calling back every timer
\* that is not cleared
NextViewer == NextSelection \/ NextModal

TimersFire == \A t \in 1..MaxTimers : WF_vars(HoverTimeout(t))

SpecViewer == InitForSelection /\ [][NextViewer]_vars /\ TimersFire

(***************************************************************************)
(* Properties of the viewport, checked under SpecViewport.                 *)
(***************************************************************************)

\* a step that is a wheel event, and the mouse position of the event
WheelStep == lastV'.op = "wheel" /\ viewportVars' # viewportVars

WheelX == Num(lastV'.e.x - SvgRect.left)

WheelY == Num(lastV'.e.y - SvgRect.top)

WheelAccepted == WheelStep /\ ~OutOfRange(NewScale(transform.k, lastV'.deltaY))

WheelRejected == WheelStep /\ OutOfRange(NewScale(transform.k, lastV'.deltaY))

\* C1: in every reachable state, after any sequence of wheel events and of
\* mouse-down, mouse-move, mouse-up and mouse-leave events from the initial
\* transform {x: 0, y: 0, k: 1}, the scale k satisfies 0.5 <= k <= 3.
C1_ScaleWithinLimits ==
    /\ Le(Div(Num(5), Num(10)), transform.k)
    /\ Le(transform.k, Num(3))

\* C1 witness: zooming out has brought the scale so near 0.5 that one more
\* step of 10% would pass it
C1_Witness ==
    /\ lastV.op = "wheel" /\ lastV.accepted /\ lastV.deltaY > 0
    /\ Lt(Mul(transform.k, Div(Num(9), Num(10))), Div(Num(5), Num(10)))

\* C2: a wheel event whose candidate scale lies outside [0.5, 3] leaves x, y
\* and k of the transform exactly as they were; the scale is not clamped.
C2_RejectedZoomChangesNothing ==
    [][WheelRejected => transform' = transform]_vars

\* C2 witness: a zoom-in was rejected because its candidate exceeded 3
C2_Witness ==
    /\ lastV.op = "wheel" /\ ~lastV.accepted /\ lastV.deltaY < 0
    /\ Gt(Mul(transform.k, Div(Num(11), Num(10))), Num(3))

\* C3: after every accepted wheel event at mouse position p the world point
\* under p is the one that was under p before: (p - x') / k' = (p - x) / k
\* on both axes.
C3_ZoomKeepsPointUnderCursor ==
    [][WheelAccepted =>
        /\ Div(Sub(WheelX, transform'.x), transform'.k)
             = Div(Sub(WheelX, transform.x), transform.k)
        /\ Div(Sub(WheelY, transform'.y), transform'.k)
             = Div(Sub(WheelY, transform.y), transform.k)]_vars

\* C3 witness: an accepted zoom step on a diagram that a pan had moved, the
\* mouse not being over the world origin
C3_Witness ==
    /\ lastV.op = "wheel" /\ lastV.accepted /\ lastV.deltaY # 0
    /\ transform.x # transform.y
    /\ transform.k # One

\* C4: an accepted zoom step adds a tenth of the current scale to it when
\* zooming in (deltaY < 0) and takes a tenth of it away when zooming out
\* (deltaY > 0); from the initial transform a zoom-in at (100, 100) leaves
\* k = 1.1 and the translation (-10, -10), so that world point (100, 100)
\* stays at screen point (100, 100).
C4_ZoomStepIsTenPercent ==
    [][WheelAccepted =>
        /\ lastV'.deltaY < 0 =>
             transform'.k = Add(transform.k, Div(transform.k, Num(10)))
        /\ lastV'.deltaY > 0 =>
             transform'.k = Sub(transform.k, Div(transform.k, Num(10)))
        /\ ( /\ transform = InitialTransform
             /\ WheelX = Num(100) /\ WheelY = Num(100)
             /\ lastV'.deltaY < 0 ) =>
             /\ transform' = [x |-> Num(-10), y |-> Num(-10),
                              k |-> Div(Num(11), Num(10))]
             /\ Add(transform'.x, Mul(Num(100), transform'.k)) = Num(100)
             /\ Add(transform'.y, Mul(Num(100), transform'.k)) = Num(100)]_vars

\* C4 witness: the state the scenario ends in, reached by one zoom-in
C4_Witness ==
    /\ lastV = [op |-> "wheel", e |-> [x |-> 120, y |-> 110],
                deltaY |-> -100, accepted |-> TRUE,
                before |-> InitialTransform]
    /\ transform = [x |-> Num(-10), y |-> Num(-10), k |-> Div(Num(11), Num(10))]
    /\ budget.zooms = MaxFarZooms - 1

(***************************************************************************)
(* Properties of the selection, checked under SpecSelection.               *)
(***************************************************************************)

\* a step that is the selection event op
SelectionStep(op) == lastS'.op = op /\ selectionVars' # selectionVars

\* C5: in every reachable state the component the detail panel shows is the
\* pinned component if one is pinned, otherwise the hovered component,
\* otherwise none; with a pin set it is the pinned one whatever is hovered.
C5_ShownIsPinnedElseHovered ==
    /\ pinnedComponent # NoComponent => shown = pinnedComponent
    /\ pinnedComponent = NoComponent => shown = hoveredComponent

\* C5 witness: one component pinned, another hovered, the pinned one shown
C5_Witness ==
    /\ pinnedComponent # NoComponent
    /\ hoveredComponent # NoComponent
    /\ hoveredComponent # pinnedComponent
    /\ shown = pinnedComponent

\* C6 as claimed: for every component X and every starting state (no pin, X
\* pinned, another component pinned), togglePin(X) followed at once by
\* togglePin(X) leaves no component pinned.
C6_TwoTogglesLeaveNoPin ==
    (lastS.op = "pin" /\ lastS.again) => pinnedComponent = NoComponent

\* C6 as amended: togglePin(X) followed at once by togglePin(X) leaves no
\* component pinned when at the start none was pinned or the pinned one had
\* an id other than X's, and leaves X pinned when at the start a component
\* with X's id was pinned.
C6_TwoTogglesRestoreThePin ==
    (lastS.op = "pin" /\ lastS.again) =>
        IF lastS.first # NoComponent /\ lastS.first.id = lastS.c.id
        THEN pinnedComponent = lastS.c
        ELSE pinnedComponent = NoComponent

\* C6 witness: two clicks on X in a row, begun with another component pinned
C6_Witness ==
    /\ lastS.op = "pin" /\ lastS.again
    /\ lastS.first # NoComponent /\ lastS.first.id # lastS.c.id
    /\ pinnedComponent = NoComponent

C8_OneTimerPending ==
    /\ Cardinality(pendingTimers) <= 1
    /\ lastS.op \in { "hoverLeave", "panelLeave" } =>
          /\ pendingTimers = { hoverTimeoutRef }
          /\ lastS.replaced \cap pendingTimers = {}

\* C8 witness: a leave started a timer while an earlier one was pending
C8_Witness ==
    /\ lastS.op = "hoverLeave"
    /\ lastS.replaced # {}
    /\ Cardinality(pendingTimers) = 1

\* C9: when hoverEnter(Y) follows a hoverLeave whose timer has not fired,
\* Y is hovered right after it and that timer never fires: it is no longer
\* pending, in this state and in every later one.
C9_EnterSupersedesLeave ==
    /\ lastS.op = "hoverEnter" => hoveredComponent = lastS.c
    /\ superseded \cap pendingTimers = {}
    /\ lastS.op = "timeout" => lastS.timer \notin superseded

\* C9 witness: a later timer has fired after an earlier one was superseded
C9_Witness ==
    /\ lastS.op = "timeout"
    /\ superseded # {}
    /\ hoveredComponent = NoComponent

\* C10: hoverEnter(c) makes c the hovered component in the step itself,
\* whatever was hovered or pinned; at rest (nothing hovered, nothing pinned)
\* nothing is shown, and right after hoverEnter(c) it is c that is shown.
C10_EnterHoversAtOnce ==
    [][SelectionStep("hoverEnter") =>
        /\ hoveredComponent' = lastS'.c
        /\ (hoveredComponent = NoComponent /\ pinnedComponent = NoComponent)
              => (shown = NoComponent /\ shown' = lastS'.c)]_vars

\* C10 witness: the first event of the viewer was a hoverEnter, and its
\* component is shown
C10_Witness ==
    /\ lastS.op = "hoverEnter"
    /\ nextTimerId = 1
    /\ pinnedComponent = NoComponent
    /\ shown = lastS.c

(***************************************************************************)
(* Properties of panning, checked under SpecPanning.                       *)
(***************************************************************************)

\* a step that is the viewport event op
ViewportStep(op) == lastV'.op = op /\ viewportVars' # viewportVars

\* C15: continuePan(p) leaves the whole transform as it is whenever the
\* viewport is not in panning mode, as it is after an endPan() and before the
\* next beginPan.
C15_MoveWhileIdleChangesNothing ==
    [][(ViewportStep("mouseMove") /\ ~isPanning) =>
          transform' = transform]_vars

\* C15 witness: after a drag has ended the pointer has moved to another
\* place, and the diagram has stayed where the drag left it
C15_Witness ==
    /\ lastV.op = "mouseMove"
    /\ ~isPanning
    /\ transform # InitialTransform
    /\ transform # MovedAlways(transform, isPanning, startPoint, lastV.e)

\* the events that are endPan(): mouse up and mouse leave of the svg element
EndPans == { "mouseUp", "mouseLeave" }

\* the state of the component InteractiveDiagram
DiagramState == <<transform, isPanning, startPoint>>

\* C16: endPan() always leaves the viewport idle and never changes the
\* transform; a second endPan() right after one changes nothing, and so does
\* an endPan() while idle.
C16_EndPanIsIdempotent ==
    [][(lastV'.op \in EndPans /\ viewportVars' # viewportVars) =>
          /\ ~isPanning'
          /\ transform' = transform
          /\ ~isPanning => DiagramState' = DiagramState
          /\ lastV.op \in EndPans => DiagramState' = DiagramState]_vars

\* C16 witness: two endPan() in a row after a drag that had moved the diagram
C16_Witness ==
    /\ lastV.op \in EndPans
    /\ lastV.again
    /\ ~lastV.panning
    /\ ~isPanning
    /\ transform # InitialTransform

\* C17: the mode is always idle or panning; it becomes panning only by a
\* mouse-down on the background, it is idle after every endPan, so whenever
\* the pointer has left the viewport, and a wheel event leaves it as it is,
\* in either mode.
C17_PanningMode ==
    /\ [](isPanning \in BOOLEAN)
    /\ [](lastV.op \in EndPans => ~isPanning)
    /\ [][(~isPanning /\ isPanning') =>
             (lastV'.op = "mouseDown" /\ OnBackground(lastV'.target))]_vars
    /\ [][ViewportStep("wheel") => isPanning' = isPanning]_vars

\* C17 witness: an accepted zoom step during a drag, the mode still panning
C17_Witness ==
    /\ lastV.op = "wheel"
    /\ lastV.accepted /\ lastV.deltaY # 0
    /\ isPanning

\* C18: beginPan records as anchor the pointer minus the translation, and
\* only beginPan changes the anchor; in panning mode continuePan(p) sets the
\* translation to p minus the anchor, whatever p, and leaves the scale.
C18_PanFollowsThePointer ==
    /\ [][(ViewportStep("mouseDown") /\ OnBackground(lastV'.target)) =>
             /\ startPoint'.x = Sub(Num(lastV'.e.x), transform.x)
             /\ startPoint'.y = Sub(Num(lastV'.e.y), transform.y)]_vars
    /\ [][startPoint' # startPoint => lastV'.op = "mouseDown"]_vars
    /\ [][(ViewportStep("mouseMove") /\ isPanning) =>
             /\ transform'.x = Sub(Num(lastV'.e.x), startPoint.x)
             /\ transform'.y = Sub(Num(lastV'.e.y), startPoint.y)
             /\ transform'.k = transform.k]_vars

\* C18 witness: a drag begun on a diagram already moved and zoomed has moved
\* it further, the scale being what the zoom left
C18_Witness ==
    /\ lastV.op = "mouseMove"
    /\ isPanning
    /\ transform.k # One
    /\ startPoint # AnchorAtPointer(lastV.e, transform)
    /\ Add(transform.x, startPoint.x) = Num(lastV.e.x)
    /\ Add(transform.y, startPoint.y) = Num(lastV.e.y)
    /\ Lt(transform.x, Num(-100))

\* C19: a mouse-down on a diagram component does not enter panning mode and
\* changes neither the anchor nor the transform; a mouse-down starts a pan
\* only on the background, the svg element or its grid rectangle.
C19_MouseDownOnComponent ==
    /\ [][(ViewportStep("mouseDown") /\ lastV'.target = "component") =>
             DiagramState' = DiagramState]_vars
    /\ [][(ViewportStep("mouseDown") /\ isPanning' /\ ~isPanning) =>
             lastV'.target \in { "svg", "grid-rect" }]_vars

\* C19 witness: a mouse-down on a component, at a place that is not where the
\* last drag began, has left the viewport idle
C19_Witness ==
    /\ lastV.op = "mouseDown"
    /\ lastV.target = "component"
    /\ ~isPanning
    /\ startPoint # Anchor(lastV.e, transform)
    /\ transform # InitialTransform

(***************************************************************************)
(* Properties of the navigation, checked under SpecNavigation.             *)
(***************************************************************************)

\* C20 as claimed: the transform is reset to {x: 0, y: 0, k: 1} when the
\* diagram shown is switched to that of another pattern, a direct switch
\* from one pattern to another in the sidebar included, and no other event
\* resets it: while the pattern stays, only a drag or a zoom step changes
\* the transform.
C20_SwitchResetsTheTransform ==
    /\ [][(pattern' # "none" /\ pattern' # pattern) =>
             transform' = InitialTransform]_vars
    /\ [][(pattern' = pattern /\ transform' # transform) =>
             lastV'.op \in { "mouseMove", "wheel" }]_vars

\* C20 witness: the sidebar has switched from one pattern to another and the
\* diagram of the new one is shown panned and zoomed as the old one was
C20_Witness ==
    /\ lastS.op = "select"
    /\ lastS.from \notin { "none", pattern }
    /\ transform.k # One
    /\ transform.x # transform.y
    /\ lastV.op # "none"

(***************************************************************************)
(* Properties of the viewer with its timers, checked under SpecViewer.     *)
(***************************************************************************)

\* the last hover event was a leave, of a component or of the panel
LeftHover == lastS.op \in { "hoverLeave", "panelLeave" }

\* the hovered component changes only when a timer fires or a component is
\* entered
HoveredKeptUntilExpiry ==
    [][hoveredComponent' # hoveredComponent =>
          lastS'.op \in { "timeout", "hoverEnter" }]_vars

C12_PanelEntryKeepsHover ==
    /\ [][SelectionStep("panelEnter") =>
            /\ pendingTimers' = {}
            /\ hoveredComponent' = hoveredComponent
            /\ pinnedComponent = NoComponent => shown' = hoveredComponent]_vars
    /\ [][(pendingTimers = {} /\ pendingTimers' # {}) =>
            lastS'.op \in { "hoverLeave", "panelLeave" }]_vars
    /\ [][(pendingTimers = {} /\ hoveredComponent' # hoveredComponent) =>
            lastS'.op = "hoverEnter"]_vars
    /\ [][SelectionStep("panelLeave") =>
            pendingTimers' = { hoverTimeoutRef' }]_vars

\* C12 witness: the pointer has entered the panel of a hovered component
\* before the timer of the leave fired, and the component is still shown
C12_Witness ==
    /\ lastS.op = "panelEnter"
    /\ lastS.cancelled # {}
    /\ pendingTimers = {}
    /\ pinnedComponent = NoComponent
    /\ hoveredComponent # NoComponent
    /\ shown = hoveredComponent

\* C13: right after any togglePin, whether it has pinned or unpinned, no
\* hover-clear timer is pending, even if a hoverLeave had armed one just
\* before.
C13_NoTimerAfterPin ==
    lastS.op = "pin" => (pendingTimers = {} /\ hoverTimeoutRef = NoTimer)

\* C13 witness: a click has unpinned a component while the timer of a leave
\* was pending
C13_Witness ==
    /\ lastS.op = "pin"
    /\ lastS.cancelled # {}
    /\ lastS.before # NoComponent
    /\ pinnedComponent = NoComponent
    /\ pendingTimers = {}

\* C14: clearPin(), the close button of the detail panel, sets the pinned
\* component to none and changes neither the hovered component nor the
\* pending timer; the component shown right after it is the hovered one, and
\* none only if nothing is hovered.
C14_ClosePaneClearsThePinOnly ==
    [][SelectionStep("close") =>
        /\ pinnedComponent' = NoComponent
        /\ hoveredComponent' = hoveredComponent
        /\ pendingTimers' = pendingTimers
        /\ hoverTimeoutRef' = hoverTimeoutRef
        /\ shown' = hoveredComponent']_vars

\* C14 witness: the panel of a pinned component was closed while another
\* component was hovered and the timer of a leave was pending; the hovered
\* one is shown
C14_Witness ==
    /\ lastS.op = "close"
    /\ lastS.before # NoComponent
    /\ pinnedComponent = NoComponent
    /\ hoveredComponent \notin { NoComponent, lastS.before }
    /\ pendingTimers # {}
    /\ shown = hoveredComponent

(***************************************************************************)
(* Properties of the selection across patterns, checked under              *)
(* SpecSelection.                                                          *)
(***************************************************************************)

\* the ids of the components of the diagram shown
ShownIds == { c.id : c \in Components(pattern) }

\* C21 as claimed: whenever the hovered or pinned selection refers to a
\* component id that is not in the diagram shown, as a component pinned
\* before a switch to another pattern does, the active component is treated
\* as none and the detail panel shows no component.
C21_ForeignSelectionShowsNothing ==
    \A c \in { pinnedComponent, hoveredComponent } \ { NoComponent } :
        c.id \notin ShownIds => shown = NoComponent

\* C21 witness: after a switch to another pattern the detail panel shows the
\* component pinned before it, whose id the new diagram does not have
C21_Witness ==
    /\ lastS.op = "select"
    /\ lastS.from # pattern
    /\ pinnedComponent # NoComponent
    /\ pinnedComponent.pattern = lastS.from
    /\ pinnedComponent.id \notin ShownIds
    /\ shown = pinnedComponent

(***************************************************************************)
(* Properties of the detail panel, checked under SpecPane.                 *)
(***************************************************************************)

\* C22 as claimed: for whichever component is shown, when the user has not
\* chosen a language for it, the selected language of the detail panel is
\* 'java' if the code of that component has the key 'java' and the first key
\* of its code otherwise, also when the component shown changes while the
\* panel stays displayed.
C22_DefaultLanguageOfTheShown ==
    (shown # NoComponent /\ chosenFor # shown) =>
        selectedLanguage = InitialLanguage(CodeKeys(shown))

\* C22 witness: the panel shows an arrow of the proxy pattern, whose code has
\* the key java alone and for which no language was chosen, and the selected
\* language is python
C22_Witness ==
    /\ shown = [pattern |-> "proxy", id |-> "arrow-controls", type |-> "arrow"]
    /\ pattern = "proxy"
    /\ chosenFor = NoComponent
    /\ selectedLanguage = "python"
    /\ PaneBody(CodeKeys(shown), selectedLanguage) = "not-available"

ModalState == <<activeModal, isAllCodeModalOpen>>

\* what the diagram and the selection hold
DiagramAndSelection ==
    <<transform, isPanning, hoveredComponent, pinnedComponent, pendingTimers,
      hoverTimeoutRef>>

\* C24: a step that opens or closes the secondary-diagram modal or the
\* all-code modal, by a button, the backdrop or Escape, leaves the transform,
\* the panning mode, the hovered and the pinned component and the pending
\* timer of the hover unchanged; and a pan, a zoom, a hover or a pin opens
\* and closes no modal.
C24_ModalsApartFromTheDiagram ==
    /\ [][ModalState' # ModalState => UNCHANGED DiagramAndSelection]_vars
    /\ [][(lastV' # lastV \/ lastS' # lastS \/ startPoint' # startPoint
             \/ DiagramAndSelection' # DiagramAndSelection) =>
              UNCHANGED ModalState]_vars

\* C24 happens: Escape has closed both modals, over a dragged and zoomed
\* diagram in panning mode with a component pinned and a timer pending
C24_Witness ==
    /\ lastKey.op = "keydown"
    /\ lastKey.open
    /\ ModalState = <<"none", FALSE>>
    /\ isPanning
    /\ transform.k # One
    /\ pinnedComponent # NoComponent
    /\ hoverTimeoutRef \in pendingTimers

\* C25: while a modal is open a press of Escape closes it and a press of
\* another key leaves it open; with no modal open a press of a key, Escape
\* included, changes nothing of the state of the application.
C25_EscapeClosesTheModals ==
    [][(lastKey' # lastKey /\ lastKey'.op = "keydown") =>
          /\ lastKey'.key = "Escape" => ModalState' = <<"none", FALSE>>
          /\ lastKey'.key # "Escape" => UNCHANGED ModalState
          /\ ModalState = <<"none", FALSE>> =>
                UNCHANGED <<designPatterns, viewportVars, selectionVars,
                            paneVars, ModalState>>
          /\ lastKey'.open <=> ModalState # <<"none", FALSE>>]_vars

\* C25 happens: Escape was pressed with no modal open, over a pinned
\* component
C25_Witness ==
    /\ lastKey.op = "keydown"
    /\ lastKey.key = "Escape"
    /\ ~lastKey.open
    /\ ModalState = <<"none", FALSE>>
    /\ pinnedComponent # NoComponent

\* C28: the callback of the timer sets the hovered component to none and
\* changes neither the pinned component, the transform, the panning mode nor
\* the modals; with a component pinned, the component shown is the same
\* before and after.
C28_TimeoutClearsOnlyTheHover ==
    [][(lastS' # lastS /\ lastS'.op = "timeout") =>
          /\ hoveredComponent' = NoComponent
          /\ UNCHANGED <<pinnedComponent, transform, isPanning, startPoint,
                         ModalState, pattern>>
          /\ pinnedComponent # NoComponent => shown' = shown]_vars

\* C28 happens: the timer has fired and cleared a hovered component, with a
\* component pinned, a modal open and the diagram zoomed
C28_Witness ==
    /\ lastS.op = "timeout"
    /\ lastS.cleared # NoComponent
    /\ pinnedComponent # NoComponent
    /\ shown = pinnedComponent
    /\ activeModal # "none"
    /\ transform.k # One

(***************************************************************************)
(* Properties of zooming during a drag, checked under SpecPanning.         *)
(***************************************************************************)

\* C27 as claimed: during a drag, after every continuePan(p) the point of
\* the diagram that was under the pointer when the drag began is under p,
\* whatever accepted zooms came between the beginPan and the continuePan.
C27_GrabbedPointFollowsThePointer ==
    (lastV.op = "mouseMove" /\ isPanning) =>
        /\ Grab(lastV.e, transform).x = grabbed.x
        /\ Grab(lastV.e, transform).y = grabbed.y

\* C27 happens: a continuePan of a drag during which a zoom was accepted
C27_Witness ==
    /\ lastV.op = "mouseMove"
    /\ isPanning
    /\ grabbed # NoGrab
    /\ transform.k # grabbed.k

(***************************************************************************)
(* Properties of a zoom undone, checked under SpecViewport.                *)
(***************************************************************************)

\* an accepted zoom right after an accepted zoom at the same point in the
\* other direction
ZoomUndone ==
    /\ lastV.op = "wheel" /\ lastV.accepted
    /\ lastV'.op = "wheel" /\ lastV'.accepted
    /\ viewportVars' # viewportVars
    /\ transform = Zoomed(lastV.before, Num(lastV.e.x - SvgRect.left),
                          Num(lastV.e.y - SvgRect.top), lastV.deltaY)
    /\ lastV'.e = lastV.e
    /\ lastV.deltaY * lastV'.deltaY < 0

\* C29: an accepted zoom-in at a point followed by an accepted zoom-out at
\* the same point, or a zoom-out followed by a zoom-in, leaves the point of
\* the diagram under that point where it was, and leaves the scale at 0.99
\* times the scale before the two, which is not that scale.
C29_ZoomInAndOutLeavesNinetyNineHundredths ==
    [][ZoomUndone =>
          /\ Grab(lastV.e, transform').x = Grab(lastV.e, lastV.before).x
          /\ Grab(lastV.e, transform').y = Grab(lastV.e, lastV.before).y
          /\ transform'.k = Mul(lastV.before.k, Div(Num(99), Num(100)))
          /\ transform'.k # lastV.before.k]_vars

\* C29 happens: the mounted diagram was zoomed in and then out at one
\* point, and its scale is 0.99
C29_Witness ==
    /\ lastV.op = "wheel" /\ lastV.accepted /\ lastV.deltaY > 0
    /\ lastV.before.k = Div(Num(11), Num(10))
    /\ transform.k = Div(Num(99), Num(100))
    /\ transform.k # One

(***************************************************************************)
(* Properties of the all-code view, checked under SpecAllCode.             *)
(***************************************************************************)

\* the keys of the code of all components of the pattern shown
AllKeys == UNION { Range(CodeKeys(c)) : c \in Components(pattern) }

\* where x is in the sequence seq
Position(seq, x) == CHOOSE i \in DOMAIN seq : seq[i] = x

\* l sorts before m
Precedes(l, m) == Position(LanguageOrder, l) < Position(LanguageOrder, m)

\* the components of the pattern shown that have a non-empty snippet for
\* the language selected in the all-code view
WithSnippet ==
    { c \in Components(pattern) :
        /\ allCodeLanguage \in Range(CodeKeys(c))
        /\ Snippet(c, allCodeLanguage) # "" }

\* C30: in the all-code view the languages offered are the keys of the code
\* of all components of the pattern, each once, in sorted order; the
\* language selected when the view opens is java if it is among them, else
\* the first of them; the snippets listed are those of exactly the
\* components with a non-empty snippet for the selected language, in the
\* order of the diagram; and the message that there are no snippets is shown
\* exactly when there is no such component.
C30_AllCodeView ==
    /\ [](isAllCodeModalOpen =>
            LET langs == availableLanguages(pattern)
                body == AllCodeBody(pattern, allCodeLanguage)
                listed == body.snippets
            IN  /\ Range(langs) = AllKeys
                /\ \A i, j \in DOMAIN langs :
                      i < j => Precedes(langs[i], langs[j])
                /\ Range(listed) = WithSnippet
                /\ \A i, j \in DOMAIN listed :
                      i < j => Position(Diagram(pattern), listed[i])
                                 < Position(Diagram(pattern), listed[j])
                /\ body.message <=> WithSnippet = {})
    /\ [][(~isAllCodeModalOpen /\ isAllCodeModalOpen' /\ AllKeys # {}) =>
             /\ "java" \in AllKeys => allCodeLanguage' = "java"
             /\ "java" \notin AllKeys =>
                   /\ allCodeLanguage' \in AllKeys
                   /\ \A l \in AllKeys \ { allCodeLanguage' } :
                         Precedes(allCodeLanguage', l)]_vars

\* C30 happens: the all-code view of a pattern without java has offered
\* javascript and python, and with python selected, for which the only
\* snippets are empty, it shows the message
C30_Witness ==
    /\ isAllCodeModalOpen
    /\ pattern = "draft"
    /\ availableLanguages(pattern) = << "javascript", "python" >>
    /\ allCodeLanguage = "python"
    /\ AllCodeBody(pattern, allCodeLanguage).message
    /\ lastS.op # "select"

(***************************************************************************)
(* Properties of the catalog, checked under SpecCatalog.                   *)
(***************************************************************************)

\* C26: in the catalog, within the diagram of every pattern no two
\* components have the same id; and no operation of the application, the
\* selection of a pattern, a pan, a zoom, a hover, a pin, a modal opened or
\* closed, changes the catalog.
C26_CatalogIdsUniqueAndFixed ==
    /\ [](\A p \in DOMAIN designPatterns :
            \A i, j \in DOMAIN designPatterns[p] :
               i # j => designPatterns[p][i] # designPatterns[p][j])
    /\ [][designPatterns' = designPatterns]_vars

\* C26 happens: over the catalog of 22 patterns another pattern has been
\* selected, the diagram zoomed, a component pinned and the all-code view
\* opened
C26_Witness ==
    /\ Cardinality(DOMAIN designPatterns) = 22
    /\ lastS.op = "select"
    /\ lastS.from # pattern
    /\ pinnedComponent # NoComponent
    /\ lastV.op = "wheel" /\ lastV.accepted
    /\ isAllCodeModalOpen

====
